---- MODULE Spec2Model ----
(***************************************************************************)
(* A model of md5sum.py: hashing mode (main) and check mode (check_md5).   *)
(* Text is a sequence of Unicode code points, a file is a sequence of      *)
(* bytes, and both output streams are sequences of printed lines.          *)
(***************************************************************************)
EXTENDS Integers, Sequences

VARIABLES
    mode,        \* "hash" (main's hashing flow) or "check" (check_md5)
    pc,          \* position of the process
    files,       \* hashing mode: the targets parse_args returned
    md5_file,    \* check mode: the bytes of the manifest file
    manifest,    \* the text lines the manifest file was written from
    bom,         \* the encoding the manifest file was written in
    encoding,    \* check_md5: result of get_encoding
    input_file,  \* check_md5: decoded text not yet read
    line,        \* check_md5: the loop variable
    fresh,       \* TRUE between the open/BOM strip and the first loop test
    targets,     \* check_md5: accepted (hash, path) records
    n_bad,       \* check_md5: bad count
    idx,         \* index of the next element of the current for loop
    errors,      \* main: files that could not be hashed
    md5s,        \* main: (hash, file) of the files hashed
    stdout,      \* lines printed on standard output
    stderr,      \* lines printed on standard error
    exit_code,   \* -1 while running, then the process exit status
    raised,      \* "none", or the exception that ended the process
    roundtrip    \* TRUE when the manifest is the output of a hashing run

vars == <<mode, pc, files, md5_file, manifest, bom, encoding, input_file, line,
          fresh, targets, n_bad, idx, errors, md5s, stdout, stderr, exit_code,
          raised, roundtrip>>

-----------------------------------------------------------------------------
(* Bounds of the model *)

MaxLines == 2   \* lines of a manifest
MaxFiles == 2   \* targets of a hashing run

-----------------------------------------------------------------------------
(* Characters and string literals of the program, as code points *)

\* '\n', which ends a line of text
NL == 10

STR_Sep        == <<32, 32>>                       \* '  ' of '{}  {}'
STR_Len        == <<76, 101, 110, 32>>             \* 'Len '
STR_OK         == <<58, 32, 79, 75>>               \* ': OK'
STR_FAIL       == <<58, 32, 70, 65, 73, 76>>       \* ': FAIL'
STR_BadLength  == <<105, 110, 118, 97, 108, 105, 100, 32, 104, 97, 115, 104,
                    32, 108, 101, 110, 103, 116, 104, 32, 105, 110, 32, 108,
                    105, 110, 101, 58, 32>>        \* 'invalid hash length in line: '
STR_BadHash    == <<105, 110, 118, 97, 108, 105, 100, 32, 104, 97, 115, 104,
                    58, 32>>                       \* 'invalid hash: '
STR_BadLine    == <<105, 110, 118, 97, 108, 105, 100, 32, 108, 105, 110, 101,
                    58, 32>>                       \* 'invalid line: '
STR_Encoding   == <<72, 97, 115, 104, 32, 102, 105, 108, 101, 32, 101, 110, 99,
                    111, 100, 105, 110, 103, 32>>  \* 'Hash file encoding '
STR_Failed     == <<32, 102, 105, 108, 101, 115, 32, 102, 97, 105, 108, 101,
                    100, 32, 116, 111, 32, 112, 97, 115, 115, 32, 104, 97, 115,
                    104, 32, 99, 104, 101, 99, 107>> \* ' files failed to pass hash check'
STR_Unable     == <<10, 69, 82, 82, 79, 82, 58, 32, 117, 110, 97, 98, 108, 101,
                    32, 116, 111, 32, 99, 97, 108, 99, 117, 108, 97, 116, 101,
                    32>>                           \* '\nERROR: unable to calculate '
STR_Hashes     == <<32, 104, 97, 115, 104, 101, 115>> \* ' hashes'

\* HASH_CHARS: '0'..'9' and 'a'..'f'
HASH_CHARS == (48..57) \cup (97..102)

\* len(md5_hash) != 32
HASH_LEN == 32

-----------------------------------------------------------------------------
(* Python string operations used by the program *)

\* The code points below U+3000 that str.isspace() holds of
WHITESPACE == {9, 10, 11, 12, 13, 28, 29, 30, 31, 32, 133, 160, 5760,
               8232, 8233, 8239, 8287} \cup (8192..8202)

\* str.isspace() of one character
IsSpace(c) == c \in WHITESPACE

\* str.lower() of one character (the ASCII letters; others are unchanged)
LowerChar(c) == IF c \in 65..90 THEN c + 32 ELSE c

\* str.lower()
Lower(s) == [i \in 1..Len(s) |-> LowerChar(s[i])]

\* The first index from i on, and the last index up to j, of a character
\* that is not whitespace
RECURSIVE FirstKept(_, _)
FirstKept(s, i) == IF i > Len(s) \/ ~IsSpace(s[i]) THEN i ELSE FirstKept(s, i + 1)

RECURSIVE LastKept(_, _)
LastKept(s, j) == IF j < 1 \/ ~IsSpace(s[j]) THEN j ELSE LastKept(s, j - 1)

\* str.strip()
Strip(s) == SubSeq(s, FirstKept(s, 1), LastKept(s, Len(s)))

\* str.split() with no argument: the maximal runs of non-whitespace
RECURSIVE SplitFrom(_, _, _, _)
SplitFrom(s, i, cur, acc) ==
    IF i > Len(s)
    THEN IF cur = <<>> THEN acc ELSE Append(acc, cur)
    ELSE IF IsSpace(s[i])
         THEN SplitFrom(s, i + 1, <<>>, IF cur = <<>> THEN acc ELSE Append(acc, cur))
         ELSE SplitFrom(s, i + 1, Append(cur, s[i]), acc)

Split(s) == SplitFrom(s, 1, <<>>, <<>>)

\* '{}'.format(n) of a non-negative integer
RECURSIVE Str(_)
Str(n) == IF n < 10 THEN <<48 + n>> ELSE Str(n \div 10) \o <<48 + (n % 10)>>

\* The index of the first newline from i on, or Len(text) when there is none
RECURSIVE LineEnd(_, _)
LineEnd(text, i) ==
    IF i >= Len(text) \/ text[i] = NL THEN i ELSE LineEnd(text, i + 1)

\* file.readline() on text: the line up to and including the newline, or
\* the rest of the text; the pair <<line, remaining text>>
ReadLine(text) ==
    LET k == LineEnd(text, 1)
    IN  IF text = <<>> THEN <<<<>>, <<>>>>
        ELSE <<SubSeq(text, 1, k), SubSeq(text, k + 1, Len(text))>>

-----------------------------------------------------------------------------
(* Text encodings: the codecs named by get_encoding, on the code points    *)
(* below U+10000, and the byte-order marks of the codecs module            *)

BOM_UTF32_BE == <<0, 0, 254, 255>>
BOM_UTF32_LE == <<255, 254, 0, 0>>
BOM_UTF8     == <<239, 187, 191>>
BOM_UTF16_LE == <<255, 254>>
BOM_UTF16_BE == <<254, 255>>

Encodings == {"none", "utf-32-be", "utf-32-le", "utf-8", "utf-16-le", "utf-16-be"}

\* bytes[:n]
Take(b, n) == SubSeq(b, 1, IF n < Len(b) THEN n ELSE Len(b))

\* get_encoding with the two-byte BOMs tested before the four-byte ones
GetEncoding_Utf16First(file_bytes) ==
    LET b == Take(file_bytes, 4)
    IN  IF Take(b, 2) = BOM_UTF16_LE THEN "utf-16-le"
        ELSE IF Take(b, 2) = BOM_UTF16_BE THEN "utf-16-be"
        ELSE IF b = BOM_UTF32_BE THEN "utf-32-be"
        ELSE IF b = BOM_UTF32_LE THEN "utf-32-le"
        ELSE IF Take(b, 3) = BOM_UTF8 THEN "utf-8"
        ELSE "none"

\* get_encoding: the first four bytes against the BOMs, in this order
GetEncoding(file_bytes) ==
    LET b == Take(file_bytes, 4)
    IN  IF b = BOM_UTF32_BE THEN "utf-32-be"
        ELSE IF b = BOM_UTF32_LE THEN "utf-32-le"
        ELSE IF Take(b, 3) = BOM_UTF8 THEN "utf-8"
        ELSE IF Take(b, 2) = BOM_UTF16_LE THEN "utf-16-le"
        ELSE IF Take(b, 2) = BOM_UTF16_BE THEN "utf-16-be"
        ELSE "none"

\* '{}'.format(encoding)
EncodingName(enc) ==
    CASE enc = "utf-32-be" -> <<117, 116, 102, 45, 51, 50, 45, 98, 101>>
      [] enc = "utf-32-le" -> <<117, 116, 102, 45, 51, 50, 45, 108, 101>>
      [] enc = "utf-8"     -> <<117, 116, 102, 45, 56>>
      [] enc = "utf-16-le" -> <<117, 116, 102, 45, 49, 54, 45, 108, 101>>
      [] enc = "utf-16-be" -> <<117, 116, 102, 45, 49, 54, 45, 98, 101>>

\* UTF-8 of one code point below U+10000
Utf8Char(c) ==
    IF c < 128 THEN <<c>>
    ELSE IF c < 2048 THEN <<192 + (c \div 64), 128 + (c % 64)>>
    ELSE <<224 + (c \div 4096), 128 + ((c \div 64) % 64), 128 + (c % 64)>>

\* The bytes of one code point in an encoding ("none": the platform default,
\* which agrees with UTF-8 on the ASCII text of a manifest)
EncodeChar(enc, c) ==
    CASE enc \in {"none", "utf-8"} -> Utf8Char(c)
      [] enc = "utf-16-le" -> <<c % 256, c \div 256>>
      [] enc = "utf-16-be" -> <<c \div 256, c % 256>>
      [] enc = "utf-32-le" -> <<c % 256, c \div 256, 0, 0>>
      [] enc = "utf-32-be" -> <<0, 0, c \div 256, c % 256>>

RECURSIVE Encode(_, _)
Encode(enc, text) ==
    IF text = <<>> THEN <<>>
    ELSE EncodeChar(enc, Head(text)) \o Encode(enc, Tail(text))

\* UTF-8 decoding, from byte i on
RECURSIVE DecodeUtf8(_, _)
DecodeUtf8(b, i) ==
    IF i > Len(b) THEN <<>>
    ELSE IF b[i] < 128 THEN <<b[i]>> \o DecodeUtf8(b, i + 1)
    ELSE IF b[i] < 224
         THEN <<(b[i] - 192) * 64 + (b[i + 1] - 128)>> \o DecodeUtf8(b, i + 2)
         ELSE <<(b[i] - 224) * 4096 + (b[i + 1] - 128) * 64 + (b[i + 2] - 128)>>
              \o DecodeUtf8(b, i + 3)

\* The text open(md5_file, 'r', encoding=encoding) yields; the codecs with
\* an explicit byte order keep a leading U+FEFF as a character
Decode(enc, b) ==
    CASE enc \in {"none", "utf-8"} -> DecodeUtf8(b, 1)
      [] enc = "utf-16-le" ->
            [i \in 1..(Len(b) \div 2) |-> b[2 * i - 1] + 256 * b[2 * i]]
      [] enc = "utf-16-be" ->
            [i \in 1..(Len(b) \div 2) |-> 256 * b[2 * i - 1] + b[2 * i]]
      [] enc = "utf-32-le" ->
            [i \in 1..(Len(b) \div 4) |->
                b[4 * i - 3] + 256 * b[4 * i - 2] + 65536 * b[4 * i - 1]
                + 16777216 * b[4 * i]]
      [] enc = "utf-32-be" ->
            [i \in 1..(Len(b) \div 4) |->
                16777216 * b[4 * i - 3] + 65536 * b[4 * i - 2] + 256 * b[4 * i - 1]
                + b[4 * i]]

\* The byte-order mark a file written in an encoding starts with
BomBytes(enc) ==
    CASE enc = "none"      -> <<>>
      [] enc = "utf-32-be" -> BOM_UTF32_BE
      [] enc = "utf-32-le" -> BOM_UTF32_LE
      [] enc = "utf-8"     -> BOM_UTF8
      [] enc = "utf-16-le" -> BOM_UTF16_LE
      [] enc = "utf-16-be" -> BOM_UTF16_BE

\* A text of lines, each ended by a newline
RECURSIVE JoinLines(_)
JoinLines(ls) ==
    IF ls = <<>> THEN <<>> ELSE Head(ls) \o <<NL>> \o JoinLines(Tail(ls))

\* The bytes of a manifest file holding the lines, written in an encoding
FileBytes(enc, ls) == BomBytes(enc) \o Encode(enc, JoinLines(ls))

-----------------------------------------------------------------------------
(* The file system the program runs on, and hashlib.md5 on its contents *)

CONTENT_HELLO == <<104, 101, 108, 108, 111>>   \* b'hello'
CONTENT_EMPTY == <<>>                          \* b''

MD5_HELLO == <<53, 100, 52, 49, 52, 48, 50, 97, 98, 99, 52, 98, 50, 97, 55, 54,
               98, 57, 55, 49, 57, 100, 57, 49, 49, 48, 49, 55, 99, 53, 57, 50>>
MD5_EMPTY == <<100, 52, 49, 100, 56, 99, 100, 57, 56, 102, 48, 48, 98, 50, 48,
               52, 101, 57, 56, 48, 48, 57, 57, 56, 101, 99, 102, 56, 52, 50,
               55, 101>>

\* md5.hexdigest() after every chunk of the content was fed to md5.update
Md5Hex(content) == IF content = CONTENT_HELLO THEN MD5_HELLO ELSE MD5_EMPTY

PATH_A  == <<97>>            \* 'a'   holds b'hello'
PATH_B  == <<98>>            \* 'b'   holds b''
PATH_BC == <<98, 32, 99>>    \* 'b c' holds b'hello'
PATH_X  == <<120>>           \* 'x'   exists and cannot be opened
PATH_G  == <<103>>           \* 'g'   does not exist

Paths == {PATH_A, PATH_B, PATH_BC, PATH_X, PATH_G}

\* open(file_path, 'rb'): the content, or the exception open raises
OpenFile(path) ==
    CASE path = PATH_A  -> [kind |-> "file", content |-> CONTENT_HELLO]
      [] path = PATH_B  -> [kind |-> "file", content |-> CONTENT_EMPTY]
      [] path = PATH_BC -> [kind |-> "file", content |-> CONTENT_HELLO]
      [] path = PATH_X  -> [kind |-> "PermissionError", content |-> <<>>]
      [] OTHER          -> [kind |-> "FileNotFoundError", content |-> <<>>]

\* calculate_md5sum: the hex digest, None on FileNotFoundError, and any
\* other exception of open propagates
CalculateMd5sum(file_path) ==
    LET f == OpenFile(file_path)
    IN  IF f.kind = "file"
        THEN [kind |-> "digest", hex |-> Md5Hex(f.content)]
        ELSE IF f.kind = "FileNotFoundError"
             THEN [kind |-> "None", hex |-> <<>>]
             ELSE [kind |-> "raise", hex |-> <<>>]

\* print_line: the line print writes
PrintLine(md5, file_path) == md5 \o STR_Sep \o file_path

-----------------------------------------------------------------------------
(* process_md5_line *)

\* process_md5_line(line, targets): what it returns, the record it appends,
\* the lines it prints on each stream, and the exception it raises.  The
\* subscripts line_l[0] and line_l[1] are evaluated before any validation.
ProcessMd5Line(ln) ==
    LET line_l   == Split(ln)
        md5_hash == Lower(line_l[1])
        target   == line_l[2]
        none     == [ret |-> 0, rec |-> <<>>, out |-> <<>>, err |-> <<>>,
                     raised |-> "none"]
    IN  IF Len(line_l) < 2
        THEN [none EXCEPT !.raised = "IndexError"]
        ELSE IF Len(md5_hash) # HASH_LEN
        THEN [none EXCEPT !.ret = 1,
                          !.out = <<STR_Len \o Str(Len(md5_hash))>>,
                          !.err = <<STR_BadLength \o ln>>]
        ELSE IF \E i \in 1..Len(md5_hash) : md5_hash[i] \notin HASH_CHARS
        THEN [none EXCEPT !.ret = 1, !.err = <<STR_BadHash \o ln>>]
        ELSE IF Len(target) <= 0
        THEN [none EXCEPT !.ret = 1, !.err = <<STR_BadLine \o ln>>]
        ELSE [none EXCEPT !.rec = <<<<md5_hash, target>>>>]

-----------------------------------------------------------------------------
(* Inputs *)

\* str.upper() of a digest, for a manifest written in upper case
Upper(s) == [i \in 1..Len(s) |-> IF s[i] \in 97..122 THEN s[i] - 32 ELSE s[i]]

LINE_Good     == MD5_HELLO \o STR_Sep \o PATH_A
LINE_Upper    == Upper(MD5_HELLO) \o STR_Sep \o PATH_A
LINE_Mismatch == MD5_HELLO \o STR_Sep \o PATH_B
LINE_Missing  == MD5_HELLO \o STR_Sep \o PATH_G
LINE_Locked   == MD5_HELLO \o STR_Sep \o PATH_X
LINE_Spaced   == MD5_HELLO \o STR_Sep \o PATH_BC
LINE_Short    == SubSeq(MD5_HELLO, 1, 31) \o STR_Sep \o PATH_A
LINE_NonHex   == <<103>> \o SubSeq(MD5_HELLO, 2, 32) \o STR_Sep \o PATH_A
LINE_ShortNonHex == <<103>> \o SubSeq(MD5_HELLO, 2, 31) \o STR_Sep \o PATH_A
LINE_OneToken == MD5_HELLO
LINE_Blank    == <<>>
LINE_Spaces   == <<32, 9>>

ManifestLines ==
    {LINE_Good, LINE_Upper, LINE_Mismatch, LINE_Missing, LINE_Locked,
     LINE_Spaced, LINE_Short, LINE_NonHex, LINE_ShortNonHex, LINE_OneToken,
     LINE_Blank, LINE_Spaces}

\* The lines of the manifests written with a byte-order mark
BomManifestLines == {LINE_Good, LINE_Short, LINE_Spaced, LINE_Blank}

\* The sequences over S of length at most n
SeqsUpTo(S, n) == UNION {[1..k -> S] : k \in 0..n}

-----------------------------------------------------------------------------
(* Initial states: a hashing run on resolved targets, or a check run on a  *)
(* manifest file                                                           *)

InitHash ==
    /\ mode = "hash"
    /\ pc = "hash"
    /\ files \in SeqsUpTo(Paths, MaxFiles)
    /\ md5_file = <<>>
    /\ manifest = <<>>
    /\ bom = "none"

InitCheck ==
    /\ mode = "check"
    /\ pc = "start"
    /\ files = <<>>
    /\ bom \in Encodings
    /\ manifest \in SeqsUpTo(IF bom = "none" THEN ManifestLines
                               ELSE BomManifestLines, MaxLines)
    /\ md5_file = FileBytes(bom, manifest)

Init ==
    /\ InitHash \/ InitCheck
    /\ encoding = "none"
    /\ input_file = <<>>
    /\ line = <<>>
    /\ fresh = FALSE
    /\ targets = <<>>
    /\ n_bad = 0
    /\ idx = 1
    /\ errors = <<>>
    /\ md5s = <<>>
    /\ stdout = <<>>
    /\ stderr = <<>>
    /\ exit_code = -1
    /\ raised = "none"
    /\ roundtrip = FALSE

\* An uncaught exception ends the process with status 1
Crash(exc) ==
    /\ pc' = "crashed"
    /\ raised' = exc
    /\ exit_code' = 1

-----------------------------------------------------------------------------
(* check_md5 *)

\* line = line[1:]
StripBOM(ln) == SubSeq(ln, 2, Len(ln))

\* check_md5, lines 125-136: detect the encoding, open the file as text,
\* read the first line and strip the BOM character from it
OpenManifest ==
    /\ mode = "check" /\ pc = "start"
    /\ LET enc == GetEncoding(md5_file)
           rl  == ReadLine(Decode(enc, md5_file))
       IN  /\ encoding' = enc
           /\ input_file' = rl[2]
           /\ line' = IF enc # "none" THEN StripBOM(rl[1]) ELSE rl[1]
           /\ stderr' = IF enc # "none"
                        THEN Append(stderr, STR_Encoding \o EncodingName(enc))
                        ELSE stderr
    /\ fresh' = TRUE
    /\ pc' = "loop"
    /\ UNCHANGED <<mode, files, md5_file, manifest, bom, targets, n_bad, idx,
                   errors, md5s, stdout, exit_code, raised, roundtrip>>

\* while line: is false, the loop and the with block end
LoopExit ==
    /\ mode = "check" /\ pc = "loop"
    /\ line = <<>>
    /\ pc' = "verify"
    /\ idx' = 1
    /\ fresh' = FALSE
    /\ UNCHANGED <<mode, files, md5_file, manifest, bom, encoding, input_file,
                   line, targets, n_bad, errors, md5s, stdout, stderr,
                   exit_code, raised, roundtrip>>

\* line = line.strip() is empty: continue, without reading the next line
LoopBlank ==
    /\ mode = "check" /\ pc = "loop"
    /\ line # <<>>
    /\ Strip(line) = <<>>
    /\ line' = Strip(line)
    /\ fresh' = FALSE
    /\ UNCHANGED <<mode, pc, files, md5_file, manifest, bom, encoding,
                   input_file, targets, n_bad, idx, errors, md5s, stdout,
                   stderr, exit_code, raised, roundtrip>>

\* n_bad += process_md5_line(line, targets); line = input_file.readline()
LoopProcess ==
    /\ mode = "check" /\ pc = "loop"
    /\ line # <<>>
    /\ Strip(line) # <<>>
    /\ LET r  == ProcessMd5Line(Strip(line))
           rl == ReadLine(input_file)
       IN  /\ r.raised = "none"
           /\ n_bad' = n_bad + r.ret
           /\ targets' = targets \o r.rec
           /\ stdout' = stdout \o r.out
           /\ stderr' = stderr \o r.err
           /\ line' = rl[1]
           /\ input_file' = rl[2]
    /\ fresh' = FALSE
    /\ UNCHANGED <<mode, pc, files, md5_file, manifest, bom, encoding, idx,
                   errors, md5s, exit_code, raised, roundtrip>>

\* process_md5_line raises: nothing in check_md5 or parse_args catches it
LoopRaise ==
    /\ mode = "check" /\ pc = "loop"
    /\ line # <<>>
    /\ Strip(line) # <<>>
    /\ LET r == ProcessMd5Line(Strip(line))
       IN  /\ r.raised # "none"
           /\ Crash(r.raised)
    /\ line' = Strip(line)
    /\ fresh' = FALSE
    /\ UNCHANGED <<mode, files, md5_file, manifest, bom, encoding, input_file,
                   targets, n_bad, idx, errors, md5s, stdout, stderr,
                   roundtrip>>

\* for target in targets: one iteration
VerifyTarget ==
    /\ mode = "check" /\ pc = "verify"
    /\ idx <= Len(targets)
    /\ LET target      == targets[idx]
           target_hash == CalculateMd5sum(target[2])
       IN  /\ target_hash.kind # "raise"
           /\ IF target_hash.kind # "None" /\ target_hash.hex = target[1]
              THEN /\ stdout' = Append(stdout, target[2] \o STR_OK)
                   /\ n_bad' = n_bad
              ELSE /\ stdout' = Append(stdout, target[2] \o STR_FAIL)
                   /\ n_bad' = n_bad + 1
    /\ idx' = idx + 1
    /\ UNCHANGED <<mode, pc, files, md5_file, manifest, bom, encoding,
                   input_file, line, fresh, targets, errors, md5s, stderr,
                   exit_code, raised, roundtrip>>

\* calculate_md5sum raises in the verification loop
VerifyRaise ==
    /\ mode = "check" /\ pc = "verify"
    /\ idx <= Len(targets)
    /\ CalculateMd5sum(targets[idx][2]).kind = "raise"
    /\ Crash(OpenFile(targets[idx][2]).kind)
    /\ UNCHANGED <<mode, files, md5_file, manifest, bom, encoding, input_file,
                   line, fresh, targets, n_bad, idx, errors, md5s, stdout,
                   stderr, roundtrip>>

\* if n_bad > 0: eprint(...); sys.exit(1)
ExitBad ==
    /\ mode = "check" /\ pc = "verify"
    /\ idx > Len(targets)
    /\ n_bad > 0
    /\ stderr' = Append(stderr, Str(n_bad) \o STR_Failed)
    /\ exit_code' = 1
    /\ pc' = "done"
    /\ UNCHANGED <<mode, files, md5_file, manifest, bom, encoding, input_file,
                   line, fresh, targets, n_bad, idx, errors, md5s, stdout,
                   raised, roundtrip>>

\* check_md5 returns and parse_args calls exit()
ExitGood ==
    /\ mode = "check" /\ pc = "verify"
    /\ idx > Len(targets)
    /\ ~(n_bad > 0)
    /\ exit_code' = 0
    /\ pc' = "done"
    /\ UNCHANGED <<mode, files, md5_file, manifest, bom, encoding, input_file,
                   line, fresh, targets, n_bad, idx, errors, md5s, stdout,
                   stderr, raised, roundtrip>>

-----------------------------------------------------------------------------
(* main *)

\* for f in files: one iteration
HashFile ==
    /\ mode = "hash" /\ pc = "hash"
    /\ idx <= Len(files)
    /\ LET f   == files[idx]
           md5 == CalculateMd5sum(f)
       IN  /\ md5.kind # "raise"
           /\ IF md5.kind = "None"
              THEN /\ errors' = Append(errors, f)
                   /\ md5s' = md5s
              ELSE /\ md5s' = Append(md5s, <<md5.hex, f>>)
                   /\ errors' = errors
    /\ idx' = idx + 1
    /\ UNCHANGED <<mode, pc, files, md5_file, manifest, bom, encoding,
                   input_file, line, fresh, targets, n_bad, stdout, stderr,
                   exit_code, raised, roundtrip>>

\* calculate_md5sum raises in main's loop
HashRaise ==
    /\ mode = "hash" /\ pc = "hash"
    /\ idx <= Len(files)
    /\ CalculateMd5sum(files[idx]).kind = "raise"
    /\ Crash(OpenFile(files[idx]).kind)
    /\ UNCHANGED <<mode, files, md5_file, manifest, bom, encoding, input_file,
                   line, fresh, targets, n_bad, idx, errors, md5s, stdout,
                   stderr, roundtrip>>

\* The error summary: the count, then one line per file
ErrorSummary(errs) ==
    IF Len(errs) > 0
    THEN <<STR_Unable \o Str(Len(errs)) \o STR_Hashes>>
         \o [i \in 1..Len(errs) |-> <<9>> \o errs[i]]
    ELSE <<>>

\* main, lines 225-233: print the hashes, then the errors; main returns
Report ==
    /\ mode = "hash" /\ pc = "hash"
    /\ idx > Len(files)
    /\ stdout' = stdout \o [i \in 1..Len(md5s) |-> PrintLine(md5s[i][1], md5s[i][2])]
    /\ stderr' = stderr \o ErrorSummary(errors)
    /\ exit_code' = 0
    /\ pc' = "done"
    /\ UNCHANGED <<mode, files, md5_file, manifest, bom, encoding, input_file,
                   line, fresh, targets, n_bad, idx, errors, md5s, raised,
                   roundtrip>>

\* The output of a finished hashing run is saved as a manifest file and a
\* check run is started on it; files and md5s keep the hashing run's record
CheckOutput ==
    /\ mode = "hash" /\ pc = "done"
    /\ mode' = "check"
    /\ pc' = "start"
    /\ manifest' = stdout
    /\ bom' = "none"
    /\ md5_file' = FileBytes("none", stdout)
    /\ roundtrip' = TRUE
    /\ stdout' = <<>>
    /\ stderr' = <<>>
    /\ exit_code' = -1
    /\ idx' = 1
    /\ UNCHANGED <<files, encoding, input_file, line, fresh, targets, n_bad,
                   errors, md5s, raised>>

Next ==
    \/ OpenManifest
    \/ LoopExit
    \/ LoopBlank
    \/ LoopProcess
    \/ LoopRaise
    \/ VerifyTarget
    \/ VerifyRaise
    \/ ExitBad
    \/ ExitGood
    \/ HashFile
    \/ HashRaise
    \/ Report
    \/ CheckOutput

Spec == Init /\ [][Next]_vars

-----------------------------------------------------------------------------
(* What the manifest says, read off its text: the notions the properties  *)
(* below compare the run against                                           *)

\* The non-blank lines of the manifest, in file order, stripped
NonBlank(ls) ==
    LET nb == SelectSeq(ls, LAMBDA l : Strip(l) # <<>>)
    IN  [i \in 1..Len(nb) |-> Strip(nb[i])]

\* The lines before the first blank line of the manifest, stripped
BeforeBlank(ls) ==
    LET blanks == {i \in 1..Len(ls) : Strip(ls[i]) = <<>>}
        k == IF blanks = {} THEN Len(ls)
             ELSE (CHOOSE i \in blanks : \A j \in blanks : i <= j) - 1
    IN  [i \in 1..k |-> Strip(ls[i])]

\* [0-9a-fA-F]
HexDigits == (48..57) \cup (97..102) \cup (65..70)

\* The line has a hash token of 32 hex digits and a path token
WellFormed(l) ==
    /\ Len(Split(l)) >= 2
    /\ Len(Split(l)[1]) = 32
    /\ \A i \in 1..Len(Split(l)[1]) : Split(l)[1][i] \in HexDigits

\* The (digest, path) record of a well-formed line
RecordOf(l) == <<Lower(Split(l)[1]), Split(l)[2]>>

\* The records of the well-formed lines, in order
RecordsOf(ls) ==
    LET wf == SelectSeq(ls, WellFormed)
    IN  [i \in 1..Len(wf) |-> RecordOf(wf[i])]

\* The file of a record holds content with the recorded digest
Matches(rec) ==
    /\ OpenFile(rec[2]).kind = "file"
    /\ Md5Hex(OpenFile(rec[2]).content) = rec[1]

\* How many elements of a sequence satisfy a test
Count(sq, Test(_)) == Len(SelectSeq(sq, Test))

NotWellFormed(l) == ~WellFormed(l)
Fails(rec) == ~Matches(rec)

\* The process has ended, by exit or by an uncaught exception
Ended == pc \in {"done", "crashed"}

-----------------------------------------------------------------------------
(* Properties *)

\* C1: in check mode the exit code is 1 when at least one manifest record
\* is invalid, mismatched or missing its file, and 0 when every record is
\* valid and matches its file.
C1_ExitCode ==
    (mode = "check" /\ Ended) =>
        exit_code = IF \A i \in 1..Len(NonBlank(manifest)) :
                          /\ WellFormed(NonBlank(manifest)[i])
                          /\ Matches(RecordOf(NonBlank(manifest)[i]))
                    THEN 0 ELSE 1

\* C2: a check run on the output of a hashing run parses every printed line
\* into the record (digest, path) that was hashed, reports '<path>: OK' for
\* each, and ends with bad count 0.
C2_RoundTrip ==
    (mode = "check" /\ roundtrip /\ Ended) =>
        /\ pc = "done"
        /\ targets = md5s
        /\ stdout = [i \in 1..Len(md5s) |-> md5s[i][2] \o STR_OK]
        /\ n_bad = 0

\* C3: the final bad count is the number of rejected manifest lines plus the
\* number of accepted records that fail verification; a line with a bad hash
\* token is not a record and counts once, and the well-formed lines of the
\* manifest are all records.
C3_BadCount ==
    (mode = "check" /\ pc = "done") =>
        /\ targets = RecordsOf(NonBlank(manifest))
        /\ n_bad = Count(NonBlank(manifest), NotWellFormed) + Count(targets, Fails)

\* C4: a non-blank line with no path token is rejected and parsing goes on;
\* no manifest line ends the run with an unhandled error.
C4_NoLineAborts ==
    mode = "check" => ~(pc = "crashed" /\ raised = "IndexError")

\* C5: calculate_md5sum never raises when the file cannot be opened, so no
\* run ends with the exception of open.
C5_OpenNeverRaises ==
    raised \notin {"PermissionError", "FileNotFoundError"}

\* C6: in hashing mode every resolved target is accounted for exactly once:
\* the digest lines of the hashable targets are on standard output in
\* resolution order, and the others are in the error summary after their count.
C6_Accounted ==
    (mode = "hash" /\ Ended) =>
        LET ok  == SelectSeq(files, LAMBDA f : OpenFile(f).kind = "file")
            bad == SelectSeq(files, LAMBDA f : OpenFile(f).kind # "file")
        IN  /\ stdout = [i \in 1..Len(ok) |->
                            Md5Hex(OpenFile(ok[i]).content) \o STR_Sep \o ok[i]]
            /\ stderr = IF bad = <<>> THEN <<>>
                        ELSE <<STR_Unable \o Str(Len(bad)) \o STR_Hashes>>
                             \o [i \in 1..Len(bad) |-> <<9>> \o bad[i]]

\* C7: in check mode standard output holds only the status lines
\* '<path>: OK' and '<path>: FAIL', one per record in manifest order.
C7_StdoutStatusOnly ==
    mode = "check" =>
        /\ Len(stdout) <= Len(targets)
        /\ \A i \in 1..Len(stdout) :
              stdout[i] \in {targets[i][2] \o STR_OK, targets[i][2] \o STR_FAIL}
        /\ pc = "done" => Len(stdout) = Len(targets)

\* C8: the read loop skips blank lines: when it ends, every non-blank line
\* of the manifest was processed once, in order, so the records and the
\* invalid count are those of the manifest without its blank lines.
C8_SkipsBlank ==
    (mode = "check" /\ pc = "verify" /\ idx = 1) =>
        /\ \A i \in 1..Len(NonBlank(manifest)) : Len(Split(NonBlank(manifest)[i])) >= 2
        /\ targets = RecordsOf(NonBlank(manifest))
        /\ n_bad = Count(NonBlank(manifest), NotWellFormed)

\* C9: get_encoding selects the encoding of the BOM the manifest starts with
\* (UTF-32-LE for FF FE 00 00), and after the strip the text to parse is
\* the manifest's text without the BOM character: one character removed
\* under a BOM, none without.  So the records and the invalid count the loop
\* ends with are one function of that text, with or without a BOM.
C9_BomStripped ==
    mode = "check" =>
        /\ (pc = "loop" /\ fresh) =>
              /\ encoding = bom
              /\ line \o input_file = JoinLines(manifest)
        /\ (pc = "verify" /\ idx = 1) =>
              /\ targets = RecordsOf(BeforeBlank(manifest))
              /\ n_bad = Count(BeforeBlank(manifest), NotWellFormed)

\* A UTF-32-LE manifest with a record has been opened and stripped
C9_Witness ==
    /\ mode = "check" /\ pc = "loop" /\ fresh
    /\ bom = "utf-32-le"
    /\ Take(md5_file, 4) = <<255, 254, 0, 0>>
    /\ manifest # <<>>
    /\ line = Head(manifest) \o <<NL>>

\* C10: every check run ends at the exit-code decision, after the read loop
\* ended and the verification ran over all the records.
C10_ReachesDecision ==
    (mode = "check" /\ Ended) => (pc = "done" /\ idx = Len(targets) + 1)

\* Every step of a run lowers Rank, so every run ends and the read loop is
\* always left, after a blank line too: there the loop variable becomes empty
Rank ==
    CASE pc = "hash"   -> 1000 + (Len(files) + 1 - idx)
      [] pc = "start"  -> 800
      [] pc = "loop"   -> 100 + Len(line) + Len(input_file)
      [] pc = "verify" -> 50 + (Len(targets) + 1 - idx)
      [] pc = "done"   -> IF mode = "hash" THEN 900 ELSE 0
      [] OTHER         -> 0

EveryStepLowersRank == [][Rank' < Rank /\ Rank' >= 0]_vars

====
